---- MODULE Spec2Model ----
(***************************************************************************)
(* Model of questionary's Form (src/questionary/form.py): construction,   *)
(* skip_if, and the resolution loop of unsafe_ask with its ask wrapper.   *)
(* One resolution call is modelled step by step: the while test, one      *)
(* iteration of the for loop per action (the loop suspends in             *)
(* Question.unsafe_ask there), and the for-else stall check.              *)
(***************************************************************************)
EXTENDS Integers, Sequences, FiniteSets, TLC

\* Largest number of fields a Form is constructed with.
MaxFields == 3

\* Largest number of resolution calls made on one Form.
MaxCalls == 2

\* ------------------------------------------------------------------------
\* Values, keys, Question objects

\* The value every Question declares as its default.
DefaultValue == "d"

\* The values a Question's unsafe_ask can return (the default among them).
Values == {"d", "x"}

\* The exceptions a Question's unsafe_ask can raise.
Exceptions == {"KeyboardInterrupt", "KeyError", "ValueError"}

\* The key under which the i-th field is registered.
Key(i) == "k" \o ToString(i)

\* The Question object of the i-th field (hashable, distinct from any key).
QuestionOf(i) == "q" \o ToString(i)

\* A name that is no field key and no Question of any Form.
Unregistered == "zzz"

\* FormField(key, question)
FormField(i) == [key |-> Key(i), question |-> QuestionOf(i)]

\* form(**kwargs): one FormField per keyword, in keyword order.
form(n) == [i \in 1..n |-> FormField(i)]

\* question.default
Default(q) == DefaultValue

\* {}
EmptyDict == [k \in {} |-> DefaultValue]

\* Mutation: setdefault; a key that has a condition keeps it.
Put_keepOld(d, k, v) == [j \in (DOMAIN d) \cup {k} |-> IF j \in DOMAIN d THEN d[j] ELSE v]

\* d[k] = v on a dict
Put(d, k, v) == [j \in (DOMAIN d) \cup {k} |-> IF j = k THEN v ELSE d[j]]

VARIABLES
    form_fields,       \* self.form_fields
    skip_conditions,   \* self.skip_conditions
    pc,                \* "idle" | "while" | "for" | "done"
    entry,             \* entry point of the running call: "unsafe_ask" | "ask"
    answers,           \* local answers of unsafe_ask
    previous_count,    \* local previous_count of unsafe_ask
    idx,               \* position of the for loop in form_fields
    unsafe_outcome,    \* how unsafe_ask ended
    result,            \* how the entry point ended
    pass,              \* history: number of passes begun in this call
    pass_start_count,  \* history: len(answers) when the current pass began
    trace,             \* history: one record per field visit of this call
    attached,          \* history: the last condition given to skip_if, per key
    replaced,          \* history: some skip_if replaced a different condition
    calls,             \* history: number of resolution calls begun
    first,             \* history: how the first resolution call went
    script,            \* what each Question did when asked (repeatable Questions)
    sel                \* one call of select (src/questionary/prompts/select.py)

vars == <<form_fields, skip_conditions, pc, entry, answers, previous_count,
          idx, unsafe_outcome, result, pass, pass_start_count, trace,
          attached, replaced, calls, first, script, sel>>

\* ------------------------------------------------------------------------
\* Skip-predicates.  A predicate is a callable on the values view; the ones
\* modelled are the constant predicates and "values[ref] == val", which
\* raises KeyError when ref is not in the view.  A lookup under a Question
\* object reads the same entry as the lookup under its key (see ValuesView)
\* and is not enumerated separately.

Refs(n) == {Key(i) : i \in 1..n} \cup {Unregistered}

Predicates(n) ==
    {[kind |-> "const", const |-> b, ref |-> "", val |-> ""] : b \in BOOLEAN}
    \cup {[kind |-> "lookup", const |-> FALSE, ref |-> Key(i), val |-> v] :
             i \in 1..n, v \in Values}
    \cup {[kind |-> "lookup", const |-> FALSE, ref |-> Unregistered, val |-> "x"]}

\* lambda x: False, the default of skip_conditions.get
NeverSkip == [kind |-> "const", const |-> FALSE, ref |-> "", val |-> ""]

\* def skip(x): return True
AlwaysSkip == [kind |-> "const", const |-> TRUE, ref |-> "", val |-> ""]

\* skip(values): "True", "False", or "KeyError" when the lookup fails.
Call(skip, values) ==
    IF skip.kind = "const" THEN (IF skip.const THEN "True" ELSE "False")
    ELSE IF skip.ref \notin DOMAIN values THEN "KeyError"
    ELSE IF values[skip.ref] = skip.val THEN "True" ELSE "False"

\* ------------------------------------------------------------------------
\* Helpers of unsafe_ask

FieldKeys == {form_fields[i].key : i \in DOMAIN form_fields}

\* Mutation: any(...) in place of all(...).
AllAnswered_any(a) == \E i \in DOMAIN form_fields : form_fields[i].key \in DOMAIN a

\* all(f.key in answers for f in self.form_fields)
AllAnswered(a) == \A i \in DOMAIN form_fields : form_fields[i].key \in DOMAIN a

\* Mutation: skip_conditions looked up under the Question, never found.
SkipFor_wrongKey(field, a) ==
    IF field.key \in DOMAIN a THEN AlwaysSkip
    ELSE IF field.question \in DOMAIN skip_conditions THEN skip_conditions[field.question]
    ELSE NeverSkip

\* The skip callable chosen for a field (lines 41-44).
SkipFor(field, a) ==
    IF field.key \in DOMAIN a THEN AlwaysSkip
    ELSE IF field.key \in DOMAIN skip_conditions THEN skip_conditions[field.key]
    ELSE NeverSkip

\* Mutation: the view holds every field, the unanswered ones under their
\* default.
ValuesView_allFields(a) ==
    LET keyOf(q) == (CHOOSE i \in DOMAIN form_fields : form_fields[i].question = q)
        at(k) == IF k \in DOMAIN a THEN a[k] ELSE DefaultValue
    IN [r \in FieldKeys \cup {form_fields[i].question : i \in DOMAIN form_fields} |->
           IF r \in FieldKeys THEN at(r) ELSE at(form_fields[keyOf(r)].key)]

\* Mutation: the update with answers only; nothing under the Questions.
ValuesView_keysOnly(a) == [r \in DOMAIN a |-> a[r]]

\* The values view (lines 45-47): answers under the Question objects, then
\* updated with answers under the keys.
ValuesView(a) ==
    LET byQuestion == {form_fields[i].question :
                          i \in {j \in DOMAIN form_fields : form_fields[j].key \in DOMAIN a}}
        keyOf(q) == (CHOOSE i \in DOMAIN form_fields : form_fields[i].question = q)
    IN [r \in byQuestion \cup DOMAIN a |->
           IF r \in DOMAIN a THEN a[r] ELSE a[form_fields[keyOf(r)].key]]

NoOutcome == [kind |-> "none", answers |-> EmptyDict, exc |-> ""]
Returned(a) == [kind |-> "returned", answers |-> a, exc |-> ""]
Raised(e) == [kind |-> "raised", answers |-> EmptyDict, exc |-> e]

\* Mutation: except Exception in place of except KeyboardInterrupt.
AskWrapper_catchAll(o) ==
    IF o.kind = "raised" THEN Returned(EmptyDict)
    ELSE o

\* Form.ask: the outcome of unsafe_ask seen through the wrapper.
AskWrapper(o) ==
    IF o.kind = "raised" /\ o.exc = "KeyboardInterrupt" THEN Returned(EmptyDict)
    ELSE o

\* unsafe_ask ends with outcome o; the entry point passes it on.
Finish(o) ==
    /\ pc' = "done"
    /\ unsafe_outcome' = o
    /\ result' = IF entry = "ask" THEN AskWrapper(o) ELSE o

\* The record kept of the first resolution call; none before it has ended.
NoFirst == [unsafe_outcome |-> NoOutcome, trace |-> <<>>]

\* select has not been called.
NoSelect ==
    [pc |-> "idle", use_shortcuts |-> FALSE, use_arrow_keys |-> FALSE,
     use_ij_keys |-> FALSE, choices |-> <<>>, i |-> 0, bindings |-> {},
     outcome |-> "none"]

\* One record of the visit history.
Visit(field, answered, decision, asked, out, wrote) ==
    [pass |-> pass, key |-> field.key, answered |-> answered,
     decision |-> decision, asked |-> asked, out |-> out, wrote |-> wrote]

\* ------------------------------------------------------------------------
\* Initial state: a Form just constructed.

Init ==
    /\ \E n \in 0..MaxFields : form_fields = form(n)
    /\ skip_conditions = EmptyDict
    /\ pc = "idle"
    /\ entry = "none"
    /\ answers = EmptyDict
    /\ previous_count = 0
    /\ idx = 0
    /\ unsafe_outcome = NoOutcome
    /\ result = NoOutcome
    /\ pass = 0
    /\ pass_start_count = 0
    /\ trace = <<>>
    /\ attached = EmptyDict
    /\ replaced = FALSE
    /\ calls = 0
    /\ first = NoFirst
    /\ script = EmptyDict
    /\ sel = NoSelect

\* ------------------------------------------------------------------------
\* Actions

\* Form.skip_if(k=condition)
skip_if ==
    /\ pc = "idle"
    /\ \E k \in FieldKeys, condition \in Predicates(Len(form_fields)) :
          /\ skip_conditions' = Put(skip_conditions, k, condition)
          /\ attached' = (k :> condition) @@ attached
          /\ replaced' = (replaced \/ (k \in DOMAIN attached /\ attached[k] # condition))
    /\ UNCHANGED <<form_fields, pc, entry, answers, previous_count, idx,
                   unsafe_outcome, result, pass, pass_start_count, trace>>
    /\ UNCHANGED <<calls, first, script, sel>>

\* Mutation: answers lives on the Form and is not cleared by a new call.
StartCall_keepAnswers(e) ==
    /\ pc' = "while"
    /\ entry' = e
    /\ answers' = answers
    /\ previous_count' = 0
    /\ calls' = calls + 1

\* The locals of a new call of unsafe_ask (lines 37-38).
StartCall(e) ==
    /\ pc' = "while"
    /\ entry' = e
    /\ answers' = EmptyDict
    /\ previous_count' = 0
    /\ calls' = calls + 1

\* Entering unsafe_ask (lines 37-38), directly or through ask (line 70).
Enter(e) ==
    /\ pc = "idle"
    /\ StartCall(e)
    /\ UNCHANGED <<form_fields, skip_conditions, idx, unsafe_outcome, result,
                   pass, pass_start_count, trace>>
    /\ UNCHANGED <<attached, replaced, first, script, sel>>

unsafe_ask == Enter("unsafe_ask")

ask == Enter("ask")

\* The while test fails (line 39): return answers (line 66).
Return ==
    /\ pc = "while"
    /\ AllAnswered(answers)
    /\ Finish(Returned(answers))
    /\ UNCHANGED <<form_fields, skip_conditions, entry, answers, previous_count,
                   idx, pass, pass_start_count, trace>>
    /\ UNCHANGED <<attached, replaced, calls, first, script, sel>>

\* The while test holds (line 39): the for loop starts a pass (line 40).
BeginPass ==
    /\ pc = "while"
    /\ ~AllAnswered(answers)
    /\ pc' = "for"
    /\ idx' = 1
    /\ pass' = pass + 1
    /\ pass_start_count' = Cardinality(DOMAIN answers)
    /\ UNCHANGED <<form_fields, skip_conditions, entry, answers, previous_count,
                   unsafe_outcome, result, trace>>
    /\ UNCHANGED <<attached, replaced, calls, first, script, sel>>

\* One iteration of the for loop (lines 40-57) on form_fields[idx].  With
\* repeatable Questions, a Question asked before does what it did then.
Visiting(repeatable) ==
    /\ pc = "for"
    /\ idx \in DOMAIN form_fields
    /\ LET field == form_fields[idx]
           answered == field.key \in DOMAIN answers
           skip == SkipFor(field, answers)
           values == ValuesView(answers)
           decision == Call(skip, values)
           outcomes == IF repeatable /\ field.question \in DOMAIN script
                       THEN {script[field.question]}
                       ELSE Values \cup Exceptions
           asks(out) == script' = IF repeatable THEN Put(script, field.question, out)
                                  ELSE script
           continue(ev) ==
               /\ pc' = "for"
               /\ idx' = idx + 1
               /\ trace' = Append(trace, ev)
               /\ UNCHANGED <<unsafe_outcome, result>>
       IN CASE decision = "KeyError" ->
                 \* except KeyError: continue
                 /\ continue(Visit(field, answered, decision, FALSE, "", ""))
                 /\ UNCHANGED <<answers, script>>
            [] decision = "True" ->
                 \* answers[field.key] = field.question.default
                 /\ answers' = Put(answers, field.key, Default(field.question))
                 /\ continue(Visit(field, answered, decision, FALSE, "",
                                   Default(field.question)))
                 /\ UNCHANGED script
            [] decision = "False" ->
                 \* answer = field.question.unsafe_ask(patch_stdout)
                 \/ \E answer \in Values \cap outcomes :
                       /\ answers' = Put(answers, field.key, answer)
                       /\ continue(Visit(field, answered, decision, TRUE, answer, answer))
                       /\ asks(answer)
                 \/ \* the Question raises KeyError: caught at line 54
                    /\ "KeyError" \in outcomes
                    /\ continue(Visit(field, answered, decision, TRUE, "KeyError", ""))
                    /\ asks("KeyError")
                    /\ UNCHANGED answers
                 \/ \E e \in (Exceptions \ {"KeyError"}) \cap outcomes :
                       \* any other exception leaves unsafe_ask
                       /\ Finish(Raised(e))
                       /\ trace' = Append(trace, Visit(field, answered, decision, TRUE, e, ""))
                       /\ asks(e)
                       /\ UNCHANGED <<answers, idx>>
    /\ UNCHANGED <<form_fields, skip_conditions, entry, previous_count, pass,
                   pass_start_count>>
    /\ UNCHANGED <<attached, replaced, calls, first, sel>>

\* A visit whose Question may do anything.
VisitField == Visiting(FALSE)

\* A visit whose Question repeats itself.
VisitRepeatable == Visiting(TRUE)

\* Mutation: previous_count is never updated.
EndPass_staleCount ==
    /\ pc = "for"
    /\ idx = Len(form_fields) + 1
    /\ IF previous_count = Cardinality(DOMAIN answers)
       THEN /\ Finish(Raised("DependencyError"))
            /\ UNCHANGED previous_count
       ELSE /\ pc' = "while"
            /\ UNCHANGED <<previous_count, unsafe_outcome, result>>
    /\ UNCHANGED <<form_fields, skip_conditions, entry, answers, idx, pass,
                   pass_start_count, trace>>
    /\ UNCHANGED <<attached, replaced, calls, first, script, sel>>

\* The else clause of the for loop (lines 58-65).
EndPass ==
    /\ pc = "for"
    /\ idx = Len(form_fields) + 1
    /\ IF previous_count = Cardinality(DOMAIN answers)
       THEN /\ Finish(Raised("DependencyError"))
            /\ UNCHANGED previous_count
       ELSE /\ previous_count' = Cardinality(DOMAIN answers)
            /\ pc' = "while"
            /\ UNCHANGED <<unsafe_outcome, result>>
    /\ UNCHANGED <<form_fields, skip_conditions, entry, answers, idx, pass,
                   pass_start_count, trace>>
    /\ UNCHANGED <<attached, replaced, calls, first, script, sel>>

Next ==
    \/ skip_if
    \/ unsafe_ask
    \/ ask
    \/ Return
    \/ BeginPass
    \/ VisitField
    \/ EndPass

Spec == Init /\ [][Next]_vars

\* A further call of unsafe_ask or ask on the same Form, after the previous
\* one has ended (lines 37-38 again).
Again ==
    /\ pc = "done"
    /\ calls < MaxCalls
    /\ \E e \in {"unsafe_ask", "ask"} : StartCall(e)
    /\ first' = IF calls = 1
                THEN [unsafe_outcome |-> unsafe_outcome, trace |-> trace]
                ELSE first
    /\ idx' = 0
    /\ unsafe_outcome' = NoOutcome
    /\ result' = NoOutcome
    /\ pass' = 0
    /\ pass_start_count' = 0
    /\ trace' = <<>>
    /\ UNCHANGED <<form_fields, skip_conditions, attached, replaced, script, sel>>

\* Repeated resolution of one Form whose Questions repeat themselves.
NextTwice ==
    \/ skip_if
    \/ unsafe_ask
    \/ ask
    \/ Return
    \/ BeginPass
    \/ VisitRepeatable
    \/ EndPass
    \/ Again

SpecTwice == Init /\ [][NextTwice]_vars

\* ------------------------------------------------------------------------
\* Reading the visit history

\* unsafe_ask has returned its answers.
ReturnedOK == pc = "done" /\ unsafe_outcome.kind = "returned"

\* The visit asked the Question and the Question returned a value.
AskReturned(v) == v.asked /\ v.out \in Values

\* The visit asked the Question and the Question raised.
AskRaised(v) == v.asked /\ v.out \notin Values

\* The visit evaluated the field's own skip-predicate (not the implicit
\* always-skip of an answered field) and got a boolean.
OwnDecision(v, d) == ~v.answered /\ v.decision = d

\* The visit stored a value in answers.
Wrote(v) == v.wrote # ""

\* The visit recorded the field's first answer.
Recorded(v) == ~v.answered /\ Wrote(v)

\* The passes of this call in which some field got its first answer.
ProgressPasses == {trace[i].pass : i \in {j \in DOMAIN trace : Recorded(trace[j])}}

\* The keys asked, in the order of the asks.
RECURSIVE AskOrder(_)
AskOrder(t) ==
    IF t = <<>> THEN <<>>
    ELSE IF Head(t).asked THEN <<Head(t).key>> \o AskOrder(Tail(t))
    ELSE AskOrder(Tail(t))

\* No Question's ask has raised in this call.
NoAskRaised == \A i \in DOMAIN trace : ~AskRaised(trace[i])

\* An exception of a Question's ask has left unsafe_ask.
QuestionFailurePropagated ==
    /\ pc = "done"
    /\ unsafe_outcome.kind = "raised"
    /\ unsafe_outcome.exc \in Exceptions

\* ------------------------------------------------------------------------
\* C1 (as claimed): whenever unsafe_ask returns, every field whose
\* skip-predicate evaluated to false maps to the value its Question returned
\* when asked, and every field whose skip-predicate evaluated to true maps to
\* its Question's default.  Stated for the calls in which every ask returned.
C1_AnswersAreAskedOrDefault ==
    (ReturnedOK /\ NoAskRaised) =>
        \A i \in DOMAIN trace :
            /\ (OwnDecision(trace[i], "False") /\ AskReturned(trace[i]))
                  => unsafe_outcome.answers[trace[i].key] = trace[i].out
            /\ OwnDecision(trace[i], "True")
                  => unsafe_outcome.answers[trace[i].key] = DefaultValue

\* C2 (as claimed): within one call no key is asked or defaulted more than
\* once, and visiting an already answered field neither asks its Question
\* nor writes to the Answer Set.  Stated for the calls in which every ask
\* returned.
C2_NoKeyHandledTwice ==
    NoAskRaised =>
    /\ \A i \in DOMAIN trace :
          trace[i].answered => (~trace[i].asked /\ ~Wrote(trace[i]))
    /\ \A i, j \in DOMAIN trace :
          (i < j /\ trace[i].key = trace[j].key)
             => ~((trace[i].asked \/ Wrote(trace[i])) /\ (trace[j].asked \/ Wrote(trace[j])))

\* C3: whenever unsafe_ask returns, the keys of the returned Answer Set are
\* exactly the field keys of the Form.
C3_ReturnedKeysAreFieldKeys ==
    ReturnedOK => DOMAIN unsafe_outcome.answers = FieldKeys

\* C3 witness: a three-field Form resolved in more than one pass.
C3_Witness ==
    /\ ReturnedOK
    /\ Len(form_fields) = 3
    /\ pass >= 2
    /\ DOMAIN unsafe_outcome.answers = FieldKeys

\* C4 (as claimed): a failure raised by a Question's ask, whatever its kind,
\* ends unsafe_ask at once with that failure; the loop does not go on and
\* does not ask that Question again.
C4_AskFailurePropagates ==
    \A i \in DOMAIN trace :
        AskRaised(trace[i]) =>
            /\ i = Len(trace)
            /\ pc = "done"
            /\ unsafe_outcome = Raised(trace[i].out)

\* Some field's skip-predicate reads a key that is no field key (and no
\* Question) of the Form.
ReadsUnregistered ==
    \E k \in DOMAIN skip_conditions :
        skip_conditions[k].kind = "lookup" /\ skip_conditions[k].ref = Unregistered

\* Two fields whose skip-predicates each read the other's key.
HasTwoCycle ==
    \E k1, k2 \in DOMAIN skip_conditions :
        /\ k1 # k2
        /\ skip_conditions[k1].kind = "lookup" /\ skip_conditions[k1].ref = k2
        /\ skip_conditions[k2].kind = "lookup" /\ skip_conditions[k2].ref = k1

\* unsafe_ask raised DependencyError at the end of the first pass that
\* recorded no new answer: every earlier pass recorded one, the last none.
StalledOut ==
    /\ unsafe_outcome = Raised("DependencyError")
    /\ idx = Len(form_fields) + 1
    /\ Cardinality(DOMAIN answers) = pass_start_count
    /\ ProgressPasses = 1..(pass - 1)

\* C5 (as claimed): a Form with a predicate reading an unregistered key fails
\* with DependencyError after exactly one pass that recorded no answer.
\* Stated for the calls that no Question's failure ended.
C5_UnregisteredFailsInOnePass ==
    (pc = "done" /\ ReadsUnregistered /\ ~QuestionFailurePropagated) =>
        /\ unsafe_outcome = Raised("DependencyError")
        /\ pass = 1
        /\ answers = EmptyDict

\* C5 (amended): a Form with a predicate reading an unregistered key never
\* returns an Answer Set; unless a Question's failure leaves unsafe_ask
\* first, it raises DependencyError at the end of the first pass that records
\* no new answer, which is pass one exactly when pass one answers no field.
C5_UnregisteredNeverResolves ==
    (pc = "done" /\ ReadsUnregistered) =>
        /\ unsafe_outcome.kind = "raised"
        /\ ~QuestionFailurePropagated =>
              (StalledOut /\ (pass = 1 <=> answers = EmptyDict))

\* C5 witness: the stall is found in the second pass, after the first pass
\* answered another field.
C5_Witness ==
    /\ pc = "done"
    /\ ReadsUnregistered
    /\ StalledOut
    /\ pass = 2
    /\ answers # EmptyDict

\* C6 (as claimed): a Form with two predicates reading each other's key fails
\* with DependencyError after exactly one pass.  Stated for the calls that no
\* Question's failure ended.
C6_CycleFailsInOnePass ==
    (pc = "done" /\ HasTwoCycle /\ ~QuestionFailurePropagated) =>
        /\ unsafe_outcome = Raised("DependencyError")
        /\ pass = 1

\* C6 (amended): a Form with two predicates reading each other's key never
\* returns an Answer Set; unless a Question's failure leaves unsafe_ask
\* first, it raises DependencyError at the end of the first pass that records
\* no new answer: after exactly one pass when pass one answers no field (as
\* when the two are the only fields), after more when other fields are
\* answered first.
C6_CycleNeverResolves ==
    (pc = "done" /\ HasTwoCycle) =>
        /\ unsafe_outcome.kind = "raised"
        /\ ~QuestionFailurePropagated =>
              /\ StalledOut
              /\ pass = 1 <=> answers = EmptyDict
              /\ Len(form_fields) = 2 => pass = 1

\* C6 witness: a cycle beside a third field that is answered in pass one.
C6_Witness ==
    /\ pc = "done"
    /\ HasTwoCycle
    /\ StalledOut
    /\ Len(form_fields) = 3
    /\ pass = 2

\* C7: unsafe_ask raises DependencyError exactly when a full pass ends with as
\* many answered fields as it began with, which leaves a field unanswered; a
\* pass that ends otherwise goes back to the while test; unsafe_ask returns
\* only with every field answered.
C7_DependencyErrorIffStalledPass ==
    /\ (pc = "done" /\ unsafe_outcome = Raised("DependencyError")) =>
          /\ idx = Len(form_fields) + 1
          /\ Cardinality(DOMAIN answers) = pass_start_count
          /\ ~AllAnswered(answers)
    /\ (pc = "while" /\ pass >= 1) =>
          Cardinality(DOMAIN answers) > pass_start_count
    /\ ReturnedOK => AllAnswered(unsafe_outcome.answers)

\* C7 witness: DependencyError after a pass that made progress and one that
\* made none.
C7_Witness ==
    /\ pc = "done"
    /\ unsafe_outcome = Raised("DependencyError")
    /\ pass >= 2
    /\ Cardinality(DOMAIN answers) = pass_start_count
    /\ answers # EmptyDict

\* The Form has exactly the two fields at positions a and b, only the field
\* at b has a skip-predicate, and that predicate reads the answer of the
\* field at a (by key or by Question).
OnlyDependency(a, b) ==
    /\ Len(form_fields) = 2
    /\ {a, b} = {1, 2}
    /\ DOMAIN skip_conditions = {form_fields[b].key}
    /\ skip_conditions[form_fields[b].key].kind = "lookup"
    /\ skip_conditions[form_fields[b].key].ref \in
          {form_fields[a].key, form_fields[a].question}

\* C8 (as claimed): where B's predicate reads A's answer, a resolution that
\* completes does so in a single pass if A precedes B, and in exactly two
\* passes if B precedes A, B recording nothing in pass 1, A asked in pass 1,
\* B asked or defaulted in pass 2.  Stated for the Forms of just A and B.
C8_PassesFollowRegistrationOrder ==
    \A a, b \in DOMAIN form_fields :
        (OnlyDependency(a, b) /\ ReturnedOK) =>
            /\ a < b => pass = 1
            /\ b < a =>
                  /\ pass = 2
                  /\ \A i \in DOMAIN trace :
                        (trace[i].key = form_fields[b].key /\ trace[i].pass = 1)
                           => ~Wrote(trace[i])
                  /\ \E i \in DOMAIN trace :
                        /\ trace[i].key = form_fields[a].key
                        /\ trace[i].pass = 1
                        /\ trace[i].asked
                  /\ \E i \in DOMAIN trace :
                        /\ trace[i].key = form_fields[b].key
                        /\ trace[i].pass = 2
                        /\ Recorded(trace[i])

\* Some Question raised the interruption signal.
Interrupted ==
    \E i \in DOMAIN trace : trace[i].asked /\ trace[i].out = "KeyboardInterrupt"

\* C9: if a Question raises the interruption signal, ask returns an empty
\* Answer Set, whatever was answered before, and unsafe_ask raises the signal
\* unchanged; ask turns nothing else into a result: DependencyError and any
\* other failure pass through it, and what it returns otherwise is what
\* unsafe_ask returned.
C9_AskCatchesOnlyInterruption ==
    pc = "done" =>
        /\ Interrupted =>
              /\ unsafe_outcome = Raised("KeyboardInterrupt")
              /\ entry = "ask" => result = Returned(EmptyDict)
              /\ entry = "unsafe_ask" => result = Raised("KeyboardInterrupt")
        /\ ~Interrupted =>
              /\ result = unsafe_outcome
              /\ result.kind = "returned" => result.answers = answers
              /\ unsafe_outcome.kind = "raised" => result = Raised(unsafe_outcome.exc)

\* C9 witness: ask returns an empty result although a field was answered
\* before the interruption.
C9_Witness ==
    /\ pc = "done"
    /\ entry = "ask"
    /\ Interrupted
    /\ answers # EmptyDict
    /\ result = Returned(EmptyDict)

\* C10 (as claimed): a Form with no skip-predicates that resolves has asked
\* its Questions in registration order, each exactly once, and the result
\* holds for every field the value its Question produced.
C10_NoPredicatesAskInOrder ==
    (ReturnedOK /\ skip_conditions = EmptyDict) =>
        /\ AskOrder(trace) = [i \in 1..Len(form_fields) |-> form_fields[i].key]
        /\ \A i \in DOMAIN trace :
              AskReturned(trace[i])
                 => unsafe_outcome.answers[trace[i].key] = trace[i].out

\* C11 (as claimed): a field whose skip-predicate evaluates to true never has
\* its Question's ask invoked during that resolution call, and its value in
\* the returned Answer Set is the Question's default.
C11_SkippedFieldNeverAsked ==
    \A i \in DOMAIN trace :
        OwnDecision(trace[i], "True") =>
            /\ \A j \in DOMAIN trace :
                  trace[j].key = trace[i].key => ~trace[j].asked
            /\ ReturnedOK => unsafe_outcome.answers[trace[i].key] = DefaultValue

\* The Answer Set as the visits of t left it: their writes, replayed.
RECURSIVE AnswersAfter(_)
AnswersAfter(t) ==
    IF t = <<>> THEN EmptyDict
    ELSE LET before == AnswersAfter(SubSeq(t, 1, Len(t) - 1))
             v == t[Len(t)]
         IN IF Wrote(v) THEN [k \in DOMAIN before \cup {v.key} |->
                                 IF k = v.key THEN v.wrote ELSE before[k]]
            ELSE before

\* The Answer Set the i-th visit of this call found.
AnswersBefore(i) == AnswersAfter(SubSeq(trace, 1, i - 1))

\* The condition last attached to key k, the never-skip default if none.
LastAttached(k) == IF k \in DOMAIN attached THEN attached[k] ELSE NeverSkip

\* C12: unsafe_ask run again on the same Form, with Questions that do again
\* what they did and pure skip-predicates, starts from an empty Answer Set
\* and a zero progress marker, makes the same visits and ends the same
\* way, by the same result mapping or the same failure.
C12_RepeatedCallSameResult ==
    /\ (pc = "while" /\ pass = 0) => (answers = EmptyDict /\ previous_count = 0)
    /\ (pc = "done" /\ calls >= 2) =>
          /\ unsafe_outcome = first.unsafe_outcome
          /\ trace = first.trace

\* C12 witness: a second call that returned a full Answer Set after two
\* passes, as the first did.
C12_Witness ==
    /\ pc = "done"
    /\ calls = 2
    /\ unsafe_outcome.kind = "returned"
    /\ unsafe_outcome = first.unsafe_outcome
    /\ Len(form_fields) >= 2
    /\ pass = 2

\* C13: after any sequence of skip_if calls, skip_conditions holds for each
\* key the condition last attached to it and nothing else, the field list is
\* as constructed, and the predicate evaluated for an unanswered field at
\* resolution is the one last attached to its key (never-skip if none).
C13_SkipIfKeepsLastCondition ==
    /\ skip_conditions = attached
    /\ form_fields = form(Len(form_fields))
    /\ \A i \in DOMAIN trace :
          ~trace[i].answered =>
              trace[i].decision =
                  Call(LastAttached(trace[i].key), ValuesView(AnswersBefore(i)))

\* C13 witness: a condition was replaced by a different one and the field's
\* visit used a condition that skips.
C13_Witness ==
    /\ replaced
    /\ Len(form_fields) = 1
    /\ trace # <<>>
    /\ skip_conditions = attached
    /\ OwnDecision(trace[1], "True")

\* The steps of a running call are taken as long as they are enabled: every
\* Question's ask and every predicate evaluation terminates.
FairSpec ==
    /\ Spec
    /\ WF_vars(Return)
    /\ WF_vars(BeginPass)
    /\ WF_vars(VisitField)
    /\ WF_vars(EndPass)

\* C14: a call of unsafe_ask always ends, by returning or by raising, and a
\* Form of N fields goes through at most N passes: every pass that has ended
\* without DependencyError has added a key to the Answer Set.
C14_TerminatesWithinNPasses ==
    /\ [](pass <= Len(form_fields))
    /\ []((pc = "while" /\ pass >= 1) => Cardinality(DOMAIN answers) >= pass)
    /\ (pc \in {"while", "for"}) ~> (pc = "done")

\* C14 witness: a three-field Form that needed all three passes.
C14_Witness ==
    /\ pc = "done"
    /\ Len(form_fields) = 3
    /\ pass = 3

\* The visit evaluated a predicate that reads a key absent from the Answer
\* Set the visit found.
DependencyAbsent(i) ==
    /\ ~trace[i].answered
    /\ LastAttached(trace[i].key).kind = "lookup"
    /\ LastAttached(trace[i].key).ref \notin DOMAIN AnswersBefore(i)

\* C15: a field is never asked or defaulted while a key its predicate reads
\* is absent from the Answer Set: such a visit records nothing, asks nothing,
\* raises nothing, and the pass goes on to the next field.
C15_PendingDependencyIsSilent ==
    \A i \in DOMAIN trace :
        DependencyAbsent(i) =>
            /\ trace[i].decision = "KeyError"
            /\ ~trace[i].asked
            /\ ~Wrote(trace[i])
            /\ AnswersAfter(SubSeq(trace, 1, i)) = AnswersBefore(i)
            /\ i = Len(trace) =>
                  /\ (pc = "for" /\ trace[i].pass = pass) =>
                        idx = 1 + CHOOSE n \in DOMAIN form_fields :
                                     form_fields[n].key = trace[i].key
                  /\ pc = "done" => unsafe_outcome = Raised("DependencyError")

\* C15 witness: a field left pending in pass one is answered in pass two,
\* once the key it reads is there.
C15_Witness ==
    \E i, j \in DOMAIN trace :
        /\ i < j
        /\ trace[i].key = trace[j].key
        /\ DependencyAbsent(i)
        /\ trace[i].decision = "KeyError"
        /\ Recorded(trace[j])
        /\ LastAttached(trace[j].key).ref \in FieldKeys

\* C16 (as claimed): whenever a skip-predicate is evaluated, the values view
\* holds, for each answered field that was asked, the value its Question
\* returned.  Stated for the calls in which every ask returned.
C16_ViewHoldsRealAnswers ==
    NoAskRaised =>
        \A i, j \in DOMAIN trace :
            (j < i /\ ~trace[i].answered /\ AskReturned(trace[j])) =>
                ValuesView(AnswersBefore(i))[trace[j].key] = trace[j].out

\* C17: where a skip-predicate is evaluated, the values view has an entry
\* under the key and one under the Question of exactly the fields present in
\* the Answer Set, both holding the field's Answer Set entry, and no entry
\* for an unanswered field.
C17_ViewAliasesAnsweredFields ==
    pc = "for" =>
        LET view == ValuesView(answers)
            answered == {n \in DOMAIN form_fields : form_fields[n].key \in DOMAIN answers}
        IN /\ DOMAIN view = {form_fields[n].key : n \in answered}
                            \cup {form_fields[n].question : n \in answered}
           /\ \A n \in answered :
                 /\ view[form_fields[n].key] = answers[form_fields[n].key]
                 /\ view[form_fields[n].question] = answers[form_fields[n].key]

\* C17 witness: a predicate is evaluated on a view that aliases an answered
\* field while another field is unanswered.
C17_Witness ==
    /\ pc = "for"
    /\ idx \in DOMAIN form_fields
    /\ form_fields[idx].key \in DOMAIN skip_conditions
    /\ form_fields[idx].key \notin DOMAIN answers
    /\ answers # EmptyDict
    /\ \E n \in DOMAIN form_fields :
          /\ form_fields[n].key \in DOMAIN answers
          /\ ValuesView(answers)[form_fields[n].question] = "x"

\* ------------------------------------------------------------------------
\* select (src/questionary/prompts/select.py)

\* Largest number of choices select is called with.
MaxChoices == 2

\* The shortcut key of a choice: a letter, or "" for a choice without one
\* (a plain string, a Separator, a Choice whose shortcut_key is None).
ChoiceKeys == {"", "a", "i", "j", "k"}

\* InquirerControl.SHORTCUT_KEYS (declared in prompts/common.py): the digits
\* and the lower-case letters.
SHORTCUT_KEYS ==
    <<"1", "2", "3", "4", "5", "6", "7", "8", "9", "0",
      "a", "b", "c", "d", "e", "f", "g", "h", "i", "j", "k", "l", "m",
      "n", "o", "p", "q", "r", "s", "t", "u", "v", "w", "x", "y", "z">>

\* The letters the guard of lines 86-90 rejects as shortcut keys.
GuardedKeys == {"i", "j"}

\* bindings.add(key)(handler); choice is the index select_choice points at.
Binding(key, handler, choice) == [key |-> key, handler |-> handler, choice |-> choice]

\* The bindings of lines 185-187.
IJBindings == {Binding("k", "move_cursor_down", 0), Binding("j", "move_cursor_up", 0)}

\* The bindings of lines 182-184.
ArrowBindings == {Binding("Down", "move_cursor_down", 0), Binding("Up", "move_cursor_up", 0)}

\* The variables of Form, which select leaves alone.
formVars == <<form_fields, skip_conditions, pc, entry, answers, previous_count,
              idx, unsafe_outcome, result, pass, pass_start_count, trace,
              attached, replaced, calls, first, script>>

\* select ends by raising e.
SelectRaises(e) == sel' = [sel EXCEPT !.pc = "done", !.outcome = e]

\* any(getattr(c, "shortcut_key", "") in ['i', 'j'] for c in choices)
Guard(choices) == \E n \in DOMAIN choices : choices[n] \in GuardedKeys

\* The call of select up to the key bindings (lines 83-149): the argument
\* checks, the InquirerControl, which keeps the choices and their shortcut
\* keys as given, and the bindings of Ctrl-Q and Ctrl-C.
select ==
    /\ sel.pc = "idle"
    /\ \E us, ua, uij \in BOOLEAN,
          choices \in UNION {[1..n -> ChoiceKeys] : n \in 0..MaxChoices} :
          LET args == [sel EXCEPT !.use_shortcuts = us, !.use_arrow_keys = ua,
                                  !.use_ij_keys = uij, !.choices = choices]
              raise(e) == sel' = [args EXCEPT !.pc = "done", !.outcome = e]
          IN IF ~(ua \/ us) THEN raise("ValueError")
             ELSE IF us /\ uij /\ Guard(choices) THEN raise("ValueError")
             ELSE IF Len(choices) = 0 THEN raise("ValueError")
             ELSE IF us /\ Len(choices) > Len(SHORTCUT_KEYS) THEN raise("ValueError")
             ELSE sel' = [args EXCEPT
                             !.pc = "shortcuts", !.i = 1,
                             !.bindings = {Binding("c-q", "abort", 0),
                                           Binding("c-c", "abort", 0)}]
    /\ UNCHANGED formVars

\* One iteration of the loop over ic.choices (lines 151-170), or its end.
RegisterShortcut ==
    /\ sel.pc = "shortcuts"
    /\ IF ~sel.use_shortcuts \/ sel.i > Len(sel.choices)
       THEN sel' = [sel EXCEPT !.pc = "movement"]
       ELSE LET key == sel.choices[sel.i]
            IN IF key = "" /\ ~sel.use_arrow_keys THEN SelectRaises("RuntimeError")
               ELSE IF key = "" THEN sel' = [sel EXCEPT !.i = @ + 1]
               ELSE sel' = [sel EXCEPT
                               !.i = @ + 1,
                               !.bindings = @ \cup {Binding(key, "select_choice", sel.i)}]
    /\ UNCHANGED formVars

\* The cursor and answer bindings and the returned Question (lines 172-201).
BindMovement ==
    /\ sel.pc = "movement"
    /\ sel' = [sel EXCEPT
                  !.pc = "done",
                  !.outcome = "Question",
                  !.bindings = @ \cup (IF sel.use_arrow_keys THEN ArrowBindings ELSE {})
                                 \cup (IF sel.use_ij_keys THEN IJBindings ELSE {})
                                 \cup {Binding("c-m", "set_answer", 0),
                                       Binding("<any>", "other", 0)}]
    /\ UNCHANGED formVars

SelectInit == Init /\ Len(form_fields) = 0

SelectNext ==
    \/ select
    \/ RegisterShortcut
    \/ BindMovement

SelectSpec == SelectInit /\ [][SelectNext]_vars

\* The handlers that move the cursor.
Movement == {"move_cursor_down", "move_cursor_up"}

\* C18 (as claimed): select called with use_shortcuts and use_ij_keys raises
\* ValueError for any choice whose shortcut key is a letter that use_ij_keys
\* binds to cursor movement, so no Question it returns has a key bound both
\* to a choice shortcut and to cursor movement.
C18_NoShortcutOnMovementKey ==
    (sel.pc # "idle" /\ sel.use_shortcuts /\ sel.use_ij_keys) =>
        /\ (\E n \in DOMAIN sel.choices :
               sel.choices[n] \in {b.key : b \in IJBindings})
              => sel.outcome = "ValueError"
        /\ sel.outcome = "Question" =>
              ~\E b1, b2 \in sel.bindings :
                  /\ b1.key = b2.key
                  /\ b1.handler = "select_choice"
                  /\ b2.handler \in Movement

====
